---- MODULE Spec2Model ----
(***************************************************************************)
(* Deep-detectors-attacks: the LOTS attack on the Noiseprint detector.     *)
(*                                                                         *)
(*   SpecTile  LotsNoiseprint3._get_gradient_of_image, one call, stepped   *)
(*             window by window (Lots4Noiseprint3.py 98-164).              *)
(*   SpecIter  BaseIterativeAttack.execute (BaseIterativeAttack.py 46-85). *)
(*   Spec      BaseAttack.execute / attack_one_step with the hooks of      *)
(*             Lots4NoiseprintBase (BaseAttack.py, Lots4NoiseprintBase.py).*)
(*                                                                         *)
(* Arrays are indexed from 0 as in the source; slices are half-open.       *)
(***************************************************************************)
EXTENDS Integers, Sequences, FiniteSets, TLC

\* ------------------------------------------------------------------ bounds
MaxSide == 3        \* image height and width in SpecTile: 1..MaxSide
MaxSlide == 2       \* window stride of the engine: 1..MaxSlide
MaxOverlap == 2     \* context overlap of the engine: 0..MaxOverlap
MaxLimit == 7       \* single-pass capacity limit of the engine: 1..MaxLimit
MaxLoss == 2        \* a loss returned by the gradient engine: 0..MaxLoss
MaxIterSteps == 3   \* steps of a BaseIterativeAttack: 1..MaxIterSteps
MaxPixel == 1       \* a pixel value of the pristine image in SpecIter: 0..MaxPixel
MaxSteps == 2       \* steps of a BaseAttack: 0..MaxSteps
MaxTotalSteps == 3  \* attack steps begun on one controller, over all its calls
MaxCalls == 2       \* calls of execute() and attack_one_step() on one controller
MaxGrad == 2        \* magnitude of a raw gradient entry: 0..MaxGrad
QualityMargin == 1  \* quality factors tried around each end of the range
MaxPicSide == 3     \* image height and width in SpecPatches: 1..MaxPicSide
MaxPatchSide == 2   \* patch height and width: 1..MaxPatchSide
MaxPadding == 1     \* each of the four paddings: 0..MaxPadding
MaxGradSide == 3    \* patch and target height and width in SpecGradient

Min(a, b) == IF a <= b THEN a ELSE b
Max(a, b) == IF a >= b THEN a ELSE b

\* ------------------------------------------------------------ SpecTile
VARIABLES
    image_shape,      \* image.shape, <<rows, columns>>
    slide,            \* self._engine.slide
    overlap,          \* self._engine.overlap
    large_limit,      \* NoiseprintEngine.large_limit
    x, y,             \* the loop variables of the tiling loops
    tpc,              \* position in _get_gradient_of_image
    image_gradient,   \* the output buffer: pixel -> the image pixel whose
                      \* patch-gradient entry is stored there, <<-1,-1>> = 0.0
    writes,           \* pixel -> number of times the tiling loop wrote it
    cumulative_loss,  \* the cumulative loss
    patch_calls,      \* number of _get_gradient_of_patch calls made
    last_call         \* the last call: its window, its loss, the block kept

tileVars == <<image_shape, slide, overlap, large_limit, x, y, tpc,
              image_gradient, writes, cumulative_loss, patch_calls, last_call>>

\* ------------------------------------------------------------ SpecIter state
VARIABLES
    iter_steps,       \* self.steps
    additive_attack,  \* self.additive_attack
    target_image,     \* self.target_image, the pristine image: pixel -> value
    step_counter,     \* self.step_counter
    attacked_image,   \* the local attacked_image of execute()
    ipc,              \* position in BaseIterativeAttack.execute
    iter_k,           \* number of values the range iterator has produced
    gradient_sum,     \* the sum of the scaled gradients applied by attack()
    gradient_last     \* the scaled gradient applied by the last attack()

iterVars == <<iter_steps, additive_attack, target_image, step_counter,
              attacked_image, ipc, iter_k, gradient_sum, gradient_last>>

\* ------------------------------------------------------------ Spec state
VARIABLES
    objective_shape,            \* self.objective_image.one_channel.shape
    objective_image,            \* self.objective_image.one_channel: pixel -> value
    target_representation,      \* self.target_representation, or None
    steps,                      \* self.steps
    plot_interval,              \* self.plot_interval
    attack_iteration,           \* self.attack_iteration
    adversarial_noise_array,    \* self.adversarial_noise_array: pixel -> value
    best_noise,                 \* self.best_noise: an array of its own, or a
                                \* view of adversarial_noise_array
    loss_steps,                 \* self.loss_steps
    psnr_steps,                 \* self.psnr_steps
    noiseprint_variance_steps,  \* self.noiseprint_variance_steps
    min_loss,                   \* self.min_loss
    files,                      \* the debug folder: best-noise.npy
    logs,                       \* the lines written to logs.txt
    pc,                         \* position in execute() / attack_one_step()
    caller,                     \* the public method that is running
    loop_i,                     \* number of values the range iterator of
                                \* execute() has produced
    hooks,                      \* hooks fired since the last execute() began
    executions,                 \* number of execute() calls that returned
    steps_begun,                \* number of attack steps begun on the object
    calls,                      \* number of public calls made on the object
    loss_input,                 \* accumulator value the last loss was measured on
    min_loss_input              \* accumulator value min_loss was measured on

runVars == <<objective_shape, objective_image, target_representation, steps, plot_interval,
             attack_iteration,
             adversarial_noise_array, best_noise, loss_steps, psnr_steps,
             noiseprint_variance_steps, min_loss, files, logs, pc, caller, loop_i,
             hooks, executions, steps_begun, calls, loss_input, min_loss_input>>

\* ------------------------------------------------------------ SpecSetup state
\* An optional value is <<>> (None) or <<v>>.
VARIABLES
    qf,                  \* the qf argument of Lots4NoiseprintBase.__init__
    file_quality,        \* what jpeg_quality_of_file does on the image file
    self_qf,             \* self.qf, the quality given to load_quality
    init_pc,             \* position in Lots4NoiseprintBase.__init__
    args_qualityFactor,  \* args.qualityFactor of attack_image.py
    args_target,         \* args.target of attack_image.py
    target_file_exists,  \* whether the file at target_path exists
    quality,             \* the variable quality of attack_image.py
    target_path,         \* the variable target_path of attack_image.py
    script_error,        \* the exception that ended attack_image.py
    script_pc            \* position in attack_image.py

setupVars == <<qf, file_quality, self_qf, init_pc, args_qualityFactor, args_target,
               target_file_exists, quality, target_path, script_error, script_pc>>

\* ------------------------------------------------------------ SpecPatches state
VARIABLES
    pic_shape,       \* self.shape of the Picture / image.shape, <<rows, columns>>
    patch_size,      \* patch_shape / self.patch_size
    padding,         \* padding / self.padding_size: <<top, right, bottom, left>>
    force_shape,     \* the force_shape argument of divide_in_patches
    forged,          \* the pixels where the mask is 1
    patches,         \* the list divide_in_patches returned
    dpc,             \* position in divide_in_patches
    target_out,      \* the array _generate_target_representation returned:
                     \* pixel -> the entry of the averaged patch stored there
    gpc              \* position in _generate_target_representation

patchVars == <<pic_shape, patch_size, padding, force_shape, forged, patches, dpc,
               target_out, gpc>>

\* ------------------------------------------------------------ SpecGradient state
VARIABLES
    image_patch_shape,   \* image_patch.shape
    patch_target_shape,  \* target.shape
    inferences,          \* number of runs of the model and its gradient tape
    patch_gradient,      \* the shape of the gradient returned, if any
    grad_pc              \* position in _get_gradient_of_patch

gradVars == <<image_patch_shape, patch_target_shape, inferences, patch_gradient,
              grad_pc>>

libVars == <<setupVars, patchVars, gradVars>>

vars == <<tileVars, iterVars, runVars, libVars>>

\* A rectangular block of an image-aligned array: rows [t, b), columns [l, r).
\* Entry (i, j) of the block is the value belonging to image pixel (t+i, l+j).
Block(t, b, l, r) == [t |-> t, b |-> Max(t, b), l |-> l, r |-> Max(l, r)]
Rows(a) == a.b - a.t
Cols(a) == a.r - a.l
Shape(a) == <<Rows(a), Cols(a)>>

\* numpy slices with non-negative bounds
DropRows(a, k) == [a EXCEPT !.t = Min(a.t + k, a.b)]      \* a[k:, :]
DropCols(a, k) == [a EXCEPT !.l = Min(a.l + k, a.r)]      \* a[:, k:]
Keep(a, n, m) == [a EXCEPT !.b = Min(a.t + n, a.b),       \* a[:n, :m]
                           !.r = Min(a.l + m, a.r)]

Pixels(shape) == (0 .. shape[1] - 1) \X (0 .. shape[2] - 1)
NoValue == <<-1, -1>>

\* image[max(x_start, 0): min(x_end, rows), max(y_start, 0): min(y_end, cols)]
Window(shape, xx, yy, s, o) ==
    Block(Max(xx - o, 0), Min(xx + s + o, shape[1]),
          Max(yy - o, 0), Min(yy + s + o, shape[2]))

\* The same slice taken from the target, an array of shape tshape.
TargetWindow(shape, tshape, xx, yy, s, o) ==
    Block(Min(Max(xx - o, 0), tshape[1]), Min(Min(xx + s + o, shape[1]), tshape[1]),
          Min(Max(yy - o, 0), tshape[2]), Min(Min(yy + s + o, shape[2]), tshape[2]))

\* np.squeeze of the (1, rows, cols, 1) gradient tensor drops every axis of
\* length 1.
SqueezedShape(shape) ==
    IF shape[1] = 1 /\ shape[2] = 1 THEN <<>>
    ELSE IF shape[1] = 1 THEN <<shape[2]>>
    ELSE IF shape[2] = 1 THEN <<shape[1]>>
    ELSE shape

\* _get_gradient_of_patch returns normally iff both of its assertions hold.
PatchCallOk(patch, target) ==
    /\ Shape(patch) = Shape(target)
    /\ SqueezedShape(Shape(patch)) = Shape(patch)

\* the rows/columns of the output buffer one window is copied to
Dest(shape, xx, yy, s) ==
    Block(xx, Min(xx + s, shape[1]), yy, Min(yy + s, shape[2]))

\* mutant: the leading overlap of a later window is not dropped
KeptWithOverlap(patch, xx, yy, s, o) ==
    Keep(patch, Min(s, Rows(patch)), Min(s, Cols(patch)))

\* the block of the patch gradient that is copied
Kept(patch, xx, yy, s, o) ==
    LET g1 == IF xx > 0 THEN DropRows(patch, o) ELSE patch
        g2 == IF yy > 0 THEN DropCols(g1, o) ELSE g1
    IN  Keep(g2, Min(s, Rows(patch)), Min(s, Cols(patch)))

\* numpy assigns a block into a slice when every axis agrees or is 1 (broadcast)
CanAssign(dest, src) ==
    /\ Rows(src) = Rows(dest) \/ Rows(src) = 1
    /\ Cols(src) = Cols(dest) \/ Cols(src) = 1

\* the buffer after  image_gradient[dest] = src
Assigned(buf, dest, src) ==
    [p \in DOMAIN buf |->
        IF /\ dest.t <= p[1] /\ p[1] < dest.b
           /\ dest.l <= p[2] /\ p[2] < dest.r
        THEN << IF Rows(src) = 1 THEN src.t ELSE src.t + (p[1] - dest.t),
                IF Cols(src) = 1 THEN src.l ELSE src.l + (p[2] - dest.l) >>
        ELSE buf[p]]

Counted(cnt, dest) ==
    [p \in DOMAIN cnt |->
        IF /\ dest.t <= p[1] /\ p[1] < dest.b
           /\ dest.l <= p[2] /\ p[2] < dest.r
        THEN cnt[p] + 1 ELSE cnt[p]]

NoCall == [window |-> Block(0, 0, 0, 0), target |-> Block(0, 0, 0, 0),
           loss |-> 0, kept |-> Block(0, 0, 0, 0), dest |-> Block(0, 0, 0, 0)]

InitTile ==
    /\ image_shape \in (1 .. MaxSide) \X (1 .. MaxSide)
    /\ slide \in 1 .. MaxSlide
    /\ overlap \in 0 .. MaxOverlap
    /\ large_limit \in 1 .. MaxLimit
    /\ x = 0 /\ y = 0
    /\ tpc = "start"
    /\ image_gradient = [p \in Pixels(image_shape) |-> NoValue]
    /\ writes = [p \in Pixels(image_shape) |-> 0]
    /\ cumulative_loss = 0
    /\ patch_calls = 0
    /\ last_call = NoCall

\* mutant: the limit itself still counts as a single pass
SinglePassTestInclusive == image_shape[1] * image_shape[2] <= large_limit

\* image.shape[0] * image.shape[1] < NoiseprintEngine.large_limit
SinglePassTest == image_shape[1] * image_shape[2] < large_limit

WholeImage == Block(0, image_shape[1], 0, image_shape[2])

\* lines 117-119: the image is processed as a single patch
SinglePass ==
    /\ tpc = "start"
    /\ SinglePassTest
    /\ PatchCallOk(WholeImage, WholeImage)
    /\ patch_calls' = patch_calls + 1
    /\ \E loss \in 0 .. MaxLoss :
        /\ last_call' = [window |-> WholeImage, target |-> WholeImage, loss |-> loss,
                         kept |-> WholeImage, dest |-> WholeImage]
        /\ cumulative_loss' = loss
    /\ image_gradient' = [p \in Pixels(image_shape) |-> p]
    /\ tpc' = "returned"
    /\ UNCHANGED <<image_shape, slide, overlap, large_limit, x, y, writes>>
    /\ UNCHANGED <<iterVars, runVars, libVars>>

\* lines 117-119, an assertion of _get_gradient_of_patch fails
SinglePassRaises ==
    /\ tpc = "start"
    /\ SinglePassTest
    /\ ~PatchCallOk(WholeImage, WholeImage)
    /\ patch_calls' = patch_calls + 1
    /\ last_call' = [NoCall EXCEPT !.window = WholeImage, !.target = WholeImage]
    /\ tpc' = "raised"
    /\ UNCHANGED <<image_shape, slide, overlap, large_limit, x, y, image_gradient,
                   writes, cumulative_loss>>
    /\ UNCHANGED <<iterVars, runVars, libVars>>

\* lines 121-124: the image is too big, the loops start
EnterTiling ==
    /\ tpc = "start"
    /\ ~SinglePassTest
    /\ tpc' = "loop"
    /\ x' = 0 /\ y' = 0
    /\ UNCHANGED <<image_shape, slide, overlap, large_limit, image_gradient, writes,
                   cumulative_loss, patch_calls, last_call>>
    /\ UNCHANGED <<iterVars, runVars, libVars>>

\* mutant: the loops step by the window size instead of the stride
AdvanceByWindow ==
    IF y + slide + overlap < image_shape[2]
    THEN /\ y' = y + slide + overlap /\ x' = x /\ tpc' = "loop"
    ELSE IF x + slide + overlap < image_shape[1]
         THEN /\ y' = 0 /\ x' = x + slide + overlap /\ tpc' = "loop"
         ELSE /\ UNCHANGED <<x, y>> /\ tpc' = "returned"

\* the loop variables after one pass of the inner loop body
Advance ==
    IF y + slide < image_shape[2]
    THEN /\ y' = y + slide /\ x' = x /\ tpc' = "loop"
    ELSE IF x + slide < image_shape[1]
         THEN /\ y' = 0 /\ x' = x + slide /\ tpc' = "loop"
         ELSE /\ UNCHANGED <<x, y>> /\ tpc' = "returned"

\* mutant: each loss is weighted by the area of the block that is kept
AddLossWeighted(total, patch_loss, kept) == total + patch_loss * Rows(kept) * Cols(kept)

\* line 153: cumulative_loss += patch_loss
AddLoss(total, patch_loss, kept) == total + patch_loss

\* lines 124-162: one pass of the inner loop body, the gradient is copied
TileStep ==
    /\ tpc = "loop"
    /\ LET patch == Window(image_shape, x, y, slide, overlap)
           target_patch == TargetWindow(image_shape, image_shape, x, y, slide, overlap)
           kept == Kept(patch, x, y, slide, overlap)
           dest == Dest(image_shape, x, y, slide)
       IN  /\ PatchCallOk(patch, target_patch)
           /\ CanAssign(dest, kept)
           /\ patch_calls' = patch_calls + 1
           /\ \E loss \in 0 .. MaxLoss :
                /\ last_call' = [window |-> patch, target |-> target_patch,
                                 loss |-> loss, kept |-> kept, dest |-> dest]
                /\ cumulative_loss' = AddLoss(cumulative_loss, loss, kept)
           /\ image_gradient' = Assigned(image_gradient, dest, kept)
           /\ writes' = Counted(writes, dest)
           /\ Advance
    /\ UNCHANGED <<image_shape, slide, overlap, large_limit>>
    /\ UNCHANGED <<iterVars, runVars, libVars>>

\* line 144: an assertion of _get_gradient_of_patch fails, the call raises
TileStepPatchRaises ==
    /\ tpc = "loop"
    /\ LET patch == Window(image_shape, x, y, slide, overlap)
           target_patch == TargetWindow(image_shape, image_shape, x, y, slide, overlap)
       IN  /\ ~PatchCallOk(patch, target_patch)
           /\ patch_calls' = patch_calls + 1
           /\ last_call' = [NoCall EXCEPT !.window = patch, !.target = target_patch]
    /\ tpc' = "raised"
    /\ UNCHANGED <<image_shape, slide, overlap, large_limit, x, y, image_gradient,
                   writes, cumulative_loss>>
    /\ UNCHANGED <<iterVars, runVars, libVars>>

\* lines 161-162: the kept block does not fit the slice, the copy raises
TileStepCopyRaises ==
    /\ tpc = "loop"
    /\ LET patch == Window(image_shape, x, y, slide, overlap)
           target_patch == TargetWindow(image_shape, image_shape, x, y, slide, overlap)
           kept == Kept(patch, x, y, slide, overlap)
           dest == Dest(image_shape, x, y, slide)
       IN  /\ PatchCallOk(patch, target_patch)
           /\ ~CanAssign(dest, kept)
           /\ patch_calls' = patch_calls + 1
           /\ \E loss \in 0 .. MaxLoss :
                /\ last_call' = [window |-> patch, target |-> target_patch,
                                 loss |-> loss, kept |-> kept, dest |-> dest]
                /\ cumulative_loss' = AddLoss(cumulative_loss, loss, kept)
    /\ tpc' = "raised"
    /\ UNCHANGED <<image_shape, slide, overlap, large_limit, x, y, image_gradient,
                   writes>>
    /\ UNCHANGED <<iterVars, runVars, libVars>>

\* ------------------------------------------------------------ SpecIter
IterPixels == {<<0, 0>>, <<0, 1>>}
ZeroImage == [p \in IterPixels |-> 0]
Minus(a, b) == [p \in DOMAIN a |-> a[p] - b[p]]
Plus(a, b) == [p \in DOMAIN a |-> a[p] + b[p]]

\* the scaled gradients one attack step can apply (alpha = 1, infinity norm 1)
ScaledGradients == {g \in [IterPixels -> -1 .. 1] : \E p \in IterPixels : g[p] # 0}

\* BaseIterativeAttack.__init__
InitIter ==
    /\ iter_steps \in 1 .. MaxIterSteps
    /\ additive_attack \in BOOLEAN
    /\ target_image \in [IterPixels -> 0 .. MaxPixel]
    /\ step_counter = 0
    /\ attacked_image = target_image
    /\ ipc = "created"
    /\ iter_k = 0
    /\ gradient_sum = ZeroImage
    /\ gradient_last = ZeroImage

\* mutant: the step input is never reset to the pristine image
StepInputKept(image) == image

\* if not self.additive_attack: attacked_image = pristine_image
StepInput(image) == IF ~additive_attack THEN target_image ELSE image

\* lines 52-58: pristine_image, _on_before_attack, attacked_image = pristine_image
IterOnBeforeAttack ==
    /\ ipc = "created"
    /\ attacked_image' = target_image
    /\ ipc' = "loop"
    /\ UNCHANGED <<iter_steps, additive_attack, target_image, step_counter, iter_k,
                   gradient_sum, gradient_last>>
    /\ UNCHANGED <<tileVars, runVars, libVars>>

\* lines 59-71: the loop takes its next value, the step input is chosen, pre-step hook
IterBeforeStep ==
    /\ ipc = "loop"
    /\ iter_k < iter_steps
    /\ step_counter' = iter_k
    /\ iter_k' = iter_k + 1
    /\ attacked_image' = StepInput(attacked_image)
    /\ ipc' = "attack"
    /\ UNCHANGED <<iter_steps, additive_attack, target_image, gradient_sum,
                   gradient_last>>
    /\ UNCHANGED <<tileVars, runVars, libVars>>

\* self.attack(attacked_image), defined by the subclasses: the step subtracts
\* its scaled gradient from the image it is given (spec 4.4, steps 2 to 5)
Attack(image, g) == Minus(image, g)

\* line 74: attacked_image = self.attack(attacked_image)
IterAttack ==
    /\ ipc = "attack"
    /\ \E g \in ScaledGradients :
        /\ attacked_image' = Attack(attacked_image, g)
        /\ gradient_sum' = Plus(gradient_sum, g)
        /\ gradient_last' = g
    /\ ipc' = "after_step"
    /\ UNCHANGED <<iter_steps, additive_attack, target_image, step_counter, iter_k>>
    /\ UNCHANGED <<tileVars, runVars, libVars>>

\* lines 76-80: post-step hook and logs
IterAfterStep ==
    /\ ipc = "after_step"
    /\ ipc' = "loop"
    /\ UNCHANGED <<iter_steps, additive_attack, target_image, step_counter,
                   attacked_image, iter_k, gradient_sum, gradient_last>>
    /\ UNCHANGED <<tileVars, runVars, libVars>>

\* lines 82-85: the loop is exhausted, post-attack hook, return attacked_image
IterOnAfterAttack ==
    /\ ipc = "loop"
    /\ iter_k >= iter_steps
    /\ ipc' = "returned"
    /\ UNCHANGED <<iter_steps, additive_attack, target_image, step_counter,
                   attacked_image, iter_k, gradient_sum, gradient_last>>
    /\ UNCHANGED <<tileVars, runVars, libVars>>

\* the perturbation carried by the attacked image
IterNoise == Minus(target_image, attacked_image)

\* ------------------------------------------------------------ Spec
\* Floats. A finite entry v of an array stands for v / Scale; nan and inf are
\* integers no finite value of the model reaches.
NaN == -1000000
Inf == 1000000
alpha == 5
StepMargin == 8

RECURSIVE Gcd(_, _)
Gcd(a, b) == IF b = 0 THEN a ELSE Gcd(b, a % b)
RECURSIVE LcmUpTo(_)
LcmUpTo(n) == IF n <= 1 THEN 1 ELSE (LcmUpTo(n - 1) * n) \div Gcd(LcmUpTo(n - 1), n)
\* every quotient g / max|g| of raw gradient entries is a multiple of 1/Scale
Scale == LcmUpTo(MaxGrad)

Abs(v) == IF v < 0 THEN -v ELSE v
FAdd(a, b) == IF a = NaN \/ b = NaN THEN NaN ELSE a + b
FLess(a, b) == a # NaN /\ b # NaN /\ a < b
HasNaN(a) == \E p \in DOMAIN a.at : a.at[p] = NaN

\* An array of the controller is its shape and its entries at the pixels the
\* model tracks: the corners, the pixels on both sides of the border margin
\* of a step. The raw gradients of the model are zero at every other pixel,
\* whose entries are therefore 0, or nan together with all the others.
Tracked(shape) ==
    Pixels(shape) \cap
        { <<0, 0>>, <<StepMargin - 1, StepMargin - 1>>, <<StepMargin, StepMargin>>,
          <<StepMargin, StepMargin + 1>>,
          <<shape[1] - StepMargin, shape[2] - StepMargin>>,
          <<shape[1] - 1, shape[2] - 1>> }
Array(shape, entries) == [shape |-> shape, at |-> entries]
Zeros(shape) == Array(shape, [p \in Tracked(shape) |-> 0])

\* np.max(np.abs(gradient)): nan as soon as one entry is nan
MaxAbs(a) ==
    IF HasNaN(a) THEN NaN
    ELSE CHOOSE m \in {Abs(a.at[p]) : p \in DOMAIN a.at} :
            \A q \in DOMAIN a.at : Abs(a.at[q]) <= m

\* lines 37-41: gradient[0:margin, :] = 0, gradient[-margin:, :] = 0, and the columns
ZeroBorder(gradient, margin) ==
    Array(gradient.shape,
          [p \in DOMAIN gradient.at |->
              IF margin > 0 /\ (\/ p[1] < margin
                                \/ p[1] >= gradient.shape[1] - margin
                                \/ p[2] < margin
                                \/ p[2] >= gradient.shape[2] - margin)
              THEN 0 ELSE gradient.at[p]])

\* line 44: gradient / np.max(np.abs(gradient)); 0/0 is nan. The raw entries are
\* whole numbers, the quotient is in units of 1/Scale.
DivideByNorm(gradient) ==
    LET norm == MaxAbs(gradient)
    IN  Array(gradient.shape,
              [p \in DOMAIN gradient.at |->
                  IF norm = NaN \/ gradient.at[p] = NaN \/ norm = 0 THEN NaN
                  ELSE (gradient.at[p] * Scale) \div norm])

\* normalize_gradient(gradient, margin)
normalize_gradient(gradient, margin) == DivideByNorm(ZeroBorder(gradient, margin))

\* line 224 and line 227: the accumulator after += alpha * image_gradient
Accumulated(noise, normalized) ==
    Array(noise.shape,
          [p \in DOMAIN noise.at |->
              FAdd(noise.at[p],
                   IF normalized.at[p] = NaN THEN NaN ELSE alpha * normalized.at[p])])

\* The raw gradients the engine returns in the model: entry a at the first
\* pixel inside the margin, b at its right neighbour, c at the corner pixel.
GradientCases ==
    { [a |-> MaxGrad, b |-> 1, c |-> 0],
      [a |-> -1, b |-> 0, c |-> MaxGrad],
      [a |-> 0, b |-> 0, c |-> 1] }
RawGradient(shape, g) ==
    Array(shape,
          [p \in Tracked(shape) |->
              IF p = <<StepMargin, StepMargin>> THEN g.a
              ELSE IF p = <<StepMargin, StepMargin + 1>> THEN g.b
              ELSE IF p = <<0, 0>> THEN g.c
              ELSE 0])

\* What _get_gradient_of_image returns for the attacked image
\* objective_image - noise: a nan image yields a nan loss and a nan gradient.
EngineOutputs(noise) ==
    IF HasNaN(noise)
    THEN {[loss |-> NaN,
           gradient |-> Array(noise.shape, [p \in DOMAIN noise.at |-> NaN])]}
    ELSE {[loss |-> l, gradient |-> RawGradient(noise.shape, g)] :
            l \in 1 .. MaxLoss, g \in GradientCases}

\* the builtin min over a list of floats: an item replaces the running
\* minimum only when it compares lower
RECURSIVE PyMin(_)
PyMin(seq) ==
    IF Len(seq) = 1 THEN seq[1]
    ELSE LET m == PyMin(SubSeq(seq, 1, Len(seq) - 1))
         IN  IF FLess(seq[Len(seq)], m) THEN seq[Len(seq)] ELSE m

\* Python's a % b for an integer a and b # 0: the result has the sign of b
PyMod(a, b) == IF b > 0 THEN a % b ELSE -((-a) % (-b))

ObjectiveShapes == {<<2 * StepMargin, 2 * StepMargin + 2>>,
                    <<2 * StepMargin + 1, 2 * StepMargin + 2>>}
PlotIntervals == {-1, 0, 2}

\* self.adversarial_noise: Picture(self.adversarial_noise_array, ""), an
\* ndarray view of the accumulator's buffer (np.asarray(...).view(cls))
AdversarialNoiseView == [view |-> TRUE, value |-> Zeros(objective_shape)]
OwnArray(a) == [view |-> FALSE, value |-> a]
\* the array a reference denotes now
Deref(ref, buffer) == IF ref.view THEN buffer ELSE ref.value
BestNoiseValue == Deref(best_noise, adversarial_noise_array)

NoFile == [exists |-> FALSE, data |-> Zeros(<<0, 0>>)]
Saved(a) == [exists |-> TRUE, data |-> a]

\* self.target_representation: None, or an array of the image's shape
NoTarget == [none |-> TRUE, shape |-> <<0, 0>>, at |-> <<>>]
TargetOf(shape) == [none |-> FALSE, shape |-> shape, at |-> [p \in Tracked(shape) |-> 1]]

\* BaseAttack.__init__ and Lots4NoiseprintBase.__init__; the target
\* representation is one the caller supplied, or None
InitRun ==
    /\ objective_shape \in ObjectiveShapes
    /\ objective_image = Array(objective_shape, [p \in Tracked(objective_shape) |-> 1])
    /\ target_representation \in {NoTarget, TargetOf(objective_shape)}
    /\ steps \in 0 .. MaxSteps
    /\ plot_interval \in PlotIntervals
    /\ attack_iteration = 0
    /\ adversarial_noise_array = Zeros(objective_shape)
    /\ best_noise = OwnArray(Zeros(objective_shape))
    /\ loss_steps = <<>>
    /\ psnr_steps = <<>>
    /\ noiseprint_variance_steps = <<>>
    /\ min_loss = Inf
    /\ files = NoFile
    /\ logs = <<>>
    /\ pc = "idle"
    /\ caller = "none"
    /\ loop_i = 0
    /\ hooks = <<>>
    /\ executions = 0
    /\ steps_begun = 0
    /\ calls = 0
    /\ loss_input = Zeros(objective_shape)
    /\ min_loss_input = Zeros(objective_shape)

\* a line of write_to_logs that is no step line
Log(message) == [msg |-> message, step |-> -1, loss |-> 0, best |-> 0]

Fired(h) == IF caller = "execute" THEN Append(hooks, h) ELSE hooks

\* plot_step, line 124: self.noiseprint_variance_steps.append(noiseprint.var())
PlotStep(series) == Append(series, [by |-> "plot_step", it |-> attack_iteration])

\* mutant: execute() starts every run from a fresh accumulator and loss series
ExecuteFresh ==
    /\ pc = "idle"
    /\ calls < MaxCalls
    /\ steps_begun + steps <= MaxTotalSteps
    /\ calls' = calls + 1
    /\ caller' = "execute"
    /\ logs' = Append(logs, Log("Starting attack pipeline"))
    /\ hooks' = <<>>
    /\ loop_i' = 0
    /\ adversarial_noise_array' = Zeros(objective_shape)
    /\ loss_steps' = <<>>
    /\ pc' = "before_attack"
    /\ UNCHANGED <<objective_shape, objective_image, target_representation, steps, plot_interval, attack_iteration,
                   best_noise, psnr_steps, noiseprint_variance_steps, min_loss, files,
                   executions, steps_begun, loss_input, min_loss_input>>
    /\ UNCHANGED <<tileVars, iterVars, libVars>>

\* BaseAttack.execute, lines 70-71
Execute ==
    /\ pc = "idle"
    /\ calls < MaxCalls
    /\ steps_begun + steps <= MaxTotalSteps
    /\ calls' = calls + 1
    /\ caller' = "execute"
    /\ logs' = Append(logs, Log("Starting attack pipeline"))
    /\ hooks' = <<>>
    /\ loop_i' = 0
    /\ pc' = "before_attack"
    /\ UNCHANGED <<objective_shape, objective_image, target_representation, steps, plot_interval, attack_iteration,
                   adversarial_noise_array, best_noise, loss_steps, psnr_steps,
                   noiseprint_variance_steps, min_loss, files, executions,
                   steps_begun, loss_input, min_loss_input>>
    /\ UNCHANGED <<tileVars, iterVars, libVars>>

\* BaseAttack._on_before_attack, lines 93-112
OnBeforeAttack ==
    /\ pc = "before_attack"
    /\ logs' = Append(logs, Log("Attack started"))
    /\ noiseprint_variance_steps' = PlotStep(noiseprint_variance_steps)
    /\ hooks' = Fired(<<"before_attack", -1>>)
    /\ pc' = "loop"
    /\ UNCHANGED <<objective_shape, objective_image, target_representation, steps, plot_interval, attack_iteration,
                   adversarial_noise_array, best_noise, loss_steps, psnr_steps,
                   min_loss, files, caller, loop_i, executions, steps_begun, calls,
                   loss_input, min_loss_input>>
    /\ UNCHANGED <<tileVars, iterVars, libVars>>

\* BaseAttack.execute, line 75: for self.attack_iteration in range(self.steps)
LoopNext ==
    /\ pc = "loop"
    /\ loop_i < steps
    /\ attack_iteration' = loop_i
    /\ loop_i' = loop_i + 1
    /\ steps_begun' = steps_begun + 1
    /\ pc' = "before_step"
    /\ UNCHANGED <<objective_shape, objective_image, target_representation, steps, plot_interval, adversarial_noise_array,
                   best_noise, loss_steps, psnr_steps, noiseprint_variance_steps,
                   min_loss, files, logs, caller, hooks, executions, calls,
                   loss_input, min_loss_input>>
    /\ UNCHANGED <<tileVars, iterVars, libVars>>

\* mutant: the loop may stop one step early
LoopEndEarly ==
    /\ pc = "loop"
    /\ loop_i + 1 >= steps
    /\ pc' = "after_attack"
    /\ UNCHANGED <<objective_shape, objective_image, target_representation, steps, plot_interval, attack_iteration,
                   adversarial_noise_array, best_noise, loss_steps, psnr_steps,
                   noiseprint_variance_steps, min_loss, files, logs, caller, loop_i,
                   hooks, executions, steps_begun, calls, loss_input, min_loss_input>>
    /\ UNCHANGED <<tileVars, iterVars, libVars>>

\* BaseAttack.execute, line 75: the range is exhausted
LoopEnd ==
    /\ pc = "loop"
    /\ loop_i >= steps
    /\ pc' = "after_attack"
    /\ UNCHANGED <<objective_shape, objective_image, target_representation, steps, plot_interval, attack_iteration,
                   adversarial_noise_array, best_noise, loss_steps, psnr_steps,
                   noiseprint_variance_steps, min_loss, files, logs, caller, loop_i,
                   hooks, executions, steps_begun, calls, loss_input, min_loss_input>>
    /\ UNCHANGED <<tileVars, iterVars, libVars>>

\* BaseAttack.attack_one_step called from outside, lines 53-59
AttackOneStep ==
    /\ pc = "idle"
    /\ calls < MaxCalls
    /\ steps_begun < MaxTotalSteps
    /\ calls' = calls + 1
    /\ caller' = "attack_one_step"
    /\ steps_begun' = steps_begun + 1
    /\ pc' = "before_step"
    /\ UNCHANGED <<objective_shape, objective_image, target_representation, steps, plot_interval, attack_iteration,
                   adversarial_noise_array, best_noise, loss_steps, psnr_steps,
                   noiseprint_variance_steps, min_loss, files, logs, loop_i, hooks,
                   executions, loss_input, min_loss_input>>
    /\ UNCHANGED <<tileVars, iterVars, libVars>>

\* _on_before_attack_step, Lots4Noiseprint3.py 166-177, no target representation:
\* line 175 calls _generate_target_representation(self, image, mask) without
\* its two arguments, the call raises TypeError
OnBeforeAttackStepRaises ==
    /\ pc = "before_step"
    /\ target_representation.none
    /\ hooks' = Fired(<<"before_step", attack_iteration>>)
    /\ pc' = "raised"
    /\ UNCHANGED <<objective_shape, objective_image, target_representation, steps, plot_interval,
                   attack_iteration, adversarial_noise_array, best_noise, loss_steps,
                   psnr_steps, noiseprint_variance_steps, min_loss, files, logs,
                   caller, loop_i, executions, steps_begun, calls, loss_input,
                   min_loss_input>>
    /\ UNCHANGED <<tileVars, iterVars, libVars>>

\* The arrays _attack_step holds by reference: the target and the objective
\* image are read by _get_gradient_of_image (lines 214-215), which returns a
\* gradient array of its own.
StepArrays(gradient) ==
    [target_representation |-> Array(target_representation.shape, target_representation.at),
     objective_image |-> objective_image,
     image_gradient |-> gradient]

\* mutant: the border is zeroed in the target representation as well
ZeroedInPlaceWithTarget(arrays, arg, margin) ==
    [arrays EXCEPT ![arg] = ZeroBorder(@, margin),
                   !.target_representation = ZeroBorder(@, margin)]

\* normalize_gradient, lines 37-41: the border zeroes are written into the
\* array passed as the argument, not into a copy
ZeroedInPlace(arrays, arg, margin) ==
    [arrays EXCEPT ![arg] = ZeroBorder(@, margin)]

\* _on_before_attack_step, Lots4Noiseprint3.py 166-177 and BaseAttack.py 127-133
OnBeforeAttackStep ==
    /\ pc = "before_step"
    /\ ~target_representation.none
    /\ hooks' = Fired(<<"before_step", attack_iteration>>)
    /\ pc' = "attack_step"
    /\ UNCHANGED <<objective_shape, objective_image, target_representation, steps, plot_interval, attack_iteration,
                   adversarial_noise_array, best_noise, loss_steps, psnr_steps,
                   noiseprint_variance_steps, min_loss, files, logs, caller, loop_i,
                   executions, steps_begun, calls, loss_input, min_loss_input>>
    /\ UNCHANGED <<tileVars, iterVars, libVars>>

\* Lots4NoiseprintBase._attack_step, lines 213-227
AttackStep ==
    /\ pc = "attack_step"
    /\ \E out \in EngineOutputs(adversarial_noise_array) :
        LET arrays == ZeroedInPlace(StepArrays(out.gradient), "image_gradient", StepMargin)
        IN  /\ loss_steps' = Append(loss_steps, out.loss)
            /\ adversarial_noise_array' =
                  Accumulated(adversarial_noise_array, DivideByNorm(arrays.image_gradient))
            /\ target_representation' =
                  [target_representation EXCEPT !.at = arrays.target_representation.at]
            /\ objective_image' = arrays.objective_image
    /\ loss_input' = adversarial_noise_array
    /\ hooks' = Fired(<<"attack_step", attack_iteration>>)
    /\ pc' = "after_step"
    /\ UNCHANGED <<objective_shape, steps, plot_interval, attack_iteration,
                   best_noise, psnr_steps, noiseprint_variance_steps, min_loss, files,
                   logs, caller, loop_i, executions, steps_begun, calls, min_loss_input>>
    /\ UNCHANGED <<tileVars, iterVars, libVars>>

\* mutant: the failure is swallowed, the step goes on to its post-step hook
\* with a nan loss
AttackStepRaisesSwallowed ==
    /\ pc = "attack_step"
    /\ loss_steps' = Append(loss_steps, NaN)
    /\ hooks' = Fired(<<"attack_step", attack_iteration>>)
    /\ pc' = "after_step"
    /\ UNCHANGED <<objective_shape, objective_image, target_representation, steps, plot_interval, attack_iteration,
                   adversarial_noise_array, best_noise, psnr_steps,
                   noiseprint_variance_steps, min_loss, files, logs, caller, loop_i,
                   executions, steps_begun, calls, loss_input, min_loss_input>>
    /\ UNCHANGED <<tileVars, iterVars, libVars>>

\* lines 214-215: _get_gradient_of_image raises (an assertion, a model error);
\* nothing catches it in _attack_step, attack_one_step or execute
AttackStepRaises ==
    /\ pc = "attack_step"
    /\ hooks' = Fired(<<"attack_step", attack_iteration>>)
    /\ pc' = "raised"
    /\ UNCHANGED <<objective_shape, objective_image, target_representation, steps, plot_interval, attack_iteration,
                   adversarial_noise_array, best_noise, loss_steps, psnr_steps,
                   noiseprint_variance_steps, min_loss, files, logs, caller, loop_i,
                   executions, steps_begun, calls, loss_input, min_loss_input>>
    /\ UNCHANGED <<tileVars, iterVars, libVars>>

\* the log line of _log_step, Lots4NoiseprintBase.py 229-233
LogStep == [msg |-> "step", step |-> attack_iteration,
            loss |-> loss_steps[Len(loss_steps)], best |-> PyMin(loss_steps)]

\* mutant: the test reads the first loss of the series instead of the last
NewMinimumOfFirst == FLess(loss_steps[1], min_loss)

\* line 106: if self.loss_steps[-1] < self.min_loss
NewMinimum == FLess(loss_steps[Len(loss_steps)], min_loss)

\* _on_after_attack_step: Lots4NoiseprintBase.py 89-116, BaseAttack.py 135-151
OnAfterAttackStep ==
    /\ pc = "after_step"
    /\ plot_interval # 0
    /\ psnr_steps' = Append(psnr_steps, [by |-> "hook", it |-> attack_iteration])
    /\ attack_iteration' = attack_iteration + 1
    /\ noiseprint_variance_steps' =
          LET hooked == Append(noiseprint_variance_steps,
                               [by |-> "hook", it |-> attack_iteration])
          IN  IF PyMod(attack_iteration + 1, plot_interval) = 0
              THEN Append(hooked, [by |-> "plot_step", it |-> attack_iteration + 1])
              ELSE hooked
    /\ IF NewMinimum
       THEN /\ min_loss' = loss_steps[Len(loss_steps)]
            /\ best_noise' = AdversarialNoiseView
            /\ logs' = Append(Append(logs, LogStep), Log("New optimal noise found"))
            /\ files' = Saved(adversarial_noise_array)
            /\ min_loss_input' = loss_input
       ELSE /\ logs' = Append(logs, LogStep)
            /\ UNCHANGED <<min_loss, best_noise, files, min_loss_input>>
    /\ hooks' = Fired(<<"after_step", attack_iteration>>)
    /\ pc' = IF caller = "execute" THEN "loop" ELSE "idle"
    /\ caller' = IF caller = "execute" THEN caller ELSE "none"
    /\ UNCHANGED <<objective_shape, objective_image, target_representation, steps, plot_interval, adversarial_noise_array,
                   loss_steps, loop_i, executions, steps_begun, calls, loss_input>>
    /\ UNCHANGED <<tileVars, iterVars, libVars>>

\* BaseAttack.py line 147 with plot_interval = 0: the modulo raises
\* ZeroDivisionError, the rest of the hook is skipped
OnAfterAttackStepRaises ==
    /\ pc = "after_step"
    /\ plot_interval = 0
    /\ psnr_steps' = Append(psnr_steps, [by |-> "hook", it |-> attack_iteration])
    /\ noiseprint_variance_steps' =
          Append(noiseprint_variance_steps, [by |-> "hook", it |-> attack_iteration])
    /\ logs' = Append(logs, LogStep)
    /\ attack_iteration' = attack_iteration + 1
    /\ hooks' = Fired(<<"after_step", attack_iteration>>)
    /\ pc' = "raised"
    /\ UNCHANGED <<objective_shape, objective_image, target_representation, steps, plot_interval, adversarial_noise_array,
                   best_noise, loss_steps, min_loss, files, caller, loop_i, executions,
                   steps_begun, calls, loss_input, min_loss_input>>
    /\ UNCHANGED <<tileVars, iterVars, libVars>>

\* _on_after_attack: BaseAttack.py 115-125, Lots4NoiseprintBase.py 136-158;
\* then execute, lines 81-84
OnAfterAttack ==
    /\ pc = "after_attack"
    /\ files' = Saved(BestNoiseValue)
    /\ noiseprint_variance_steps' = PlotStep(noiseprint_variance_steps)
    /\ hooks' = Fired(<<"after_attack", -1>>)
    /\ logs' = Append(logs, Log("Attack pipeline terminated"))
    /\ executions' = executions + 1
    /\ pc' = "idle"
    /\ caller' = "none"
    /\ UNCHANGED <<objective_shape, objective_image, target_representation, steps, plot_interval, attack_iteration,
                   adversarial_noise_array, best_noise, loss_steps, psnr_steps,
                   min_loss, loop_i, steps_begun, calls, loss_input, min_loss_input>>
    /\ UNCHANGED <<tileVars, iterVars, libVars>>

\* ------------------------------------------------------------ SpecSetup
MinQuality == 51
MaxQuality == 101
DefaultQuality == 101

None == <<>>
Some(v) == <<v>>
Value(o) == o[1]

\* the quality factors tried: None, 0, and the values within QualityMargin of
\* the two ends of the range
NearEnds ==
    (MinQuality - QualityMargin .. MinQuality + QualityMargin)
        \cup (MaxQuality - QualityMargin .. MaxQuality + QualityMargin)
QfInputs == {None, Some(0)} \cup {Some(v) : v \in NearEnds}
\* argparse: type=int, choices=range(51, 102), default=None
ArgQualities == {None} \cup {Some(v) : v \in NearEnds \cap (MinQuality .. MaxQuality)}
\* jpeg_quality_of_file returns the quality it estimates from the file, or raises
FileQualities ==
    {[raises |-> "AttributeError", value |-> 0], [raises |-> "OSError", value |-> 0]}
        \cup {[raises |-> "", value |-> v] : v \in NearEnds \cup {1}}

\* the custom target files a caller names
TargetArgs == {None, Some("custom.npy")}

InitSetup ==
    /\ qf \in QfInputs
    /\ file_quality \in FileQualities
    /\ self_qf = None
    /\ init_pc = "start"
    /\ args_qualityFactor \in ArgQualities
    /\ args_target \in TargetArgs
    /\ target_file_exists \in BOOLEAN
    /\ quality = None
    /\ target_path = None
    /\ script_error = ""
    /\ script_pc = "start"

\* mutant: only a missing quality factor is replaced
QualityRejectedIfMissing(q) == q = None \/ Value(q) = 0

\* line 72: not qf or qf < 51 or qf > 101
QualityRejected(q) ==
    \/ q = None \/ Value(q) = 0
    \/ Value(q) < MinQuality \/ Value(q) > MaxQuality

\* lines 72-76: the quality factor that reaches load_quality
SelectQuality(q, file) ==
    IF QualityRejected(q)
    THEN IF file.raises = "" THEN file.value ELSE DefaultQuality
    ELSE Value(q)

\* Lots4NoiseprintBase.__init__, lines 72-81
LotsInitQuality ==
    /\ init_pc = "start"
    /\ self_qf' = Some(SelectQuality(qf, file_quality))
    /\ init_pc' = "loaded"
    /\ UNCHANGED <<qf, file_quality, args_qualityFactor, args_target,
                   target_file_exists, quality, target_path, script_error, script_pc>>
    /\ UNCHANGED <<tileVars, iterVars, runVars, patchVars, gradVars>>

\* attack_image.py, lines 29-36: quality selection
ScriptQuality ==
    /\ script_pc = "start"
    /\ args_qualityFactor # None \/ file_quality.raises \in {"", "AttributeError"}
    /\ quality' = IF args_qualityFactor # None THEN args_qualityFactor
                  ELSE IF file_quality.raises = "" THEN Some(file_quality.value)
                  ELSE Some(DefaultQuality)
    /\ script_pc' = "quality"
    /\ UNCHANGED <<qf, file_quality, self_qf, init_pc, args_qualityFactor, args_target,
                   target_file_exists, target_path, script_error>>
    /\ UNCHANGED <<tileVars, iterVars, runVars, patchVars, gradVars>>

\* attack_image.py, lines 31-34: jpeg_quality_of_file raises something that
\* is no AttributeError, nothing catches it
ScriptQualityRaises ==
    /\ script_pc = "start"
    /\ args_qualityFactor = None
    /\ file_quality.raises \notin {"", "AttributeError"}
    /\ script_error' = file_quality.raises
    /\ script_pc' = "raised"
    /\ UNCHANGED <<qf, file_quality, self_qf, init_pc, args_qualityFactor, args_target,
                   target_file_exists, quality, target_path>>
    /\ UNCHANGED <<tileVars, iterVars, runVars, patchVars, gradVars>>

\* lines 39-43: the path of the target representation
TargetPath == IF args_target # None THEN args_target ELSE Some(<<"./Targets/", Value(quality), ".npy">>)

\* attack_image.py, lines 38-46: np.load(target_path) of an existing file
ScriptLoadTarget ==
    /\ script_pc = "quality"
    /\ target_path' = TargetPath
    /\ target_file_exists
    /\ script_pc' = "target_loaded"
    /\ UNCHANGED <<qf, file_quality, self_qf, init_pc, args_qualityFactor, args_target,
                   target_file_exists, quality, script_error>>
    /\ UNCHANGED <<tileVars, iterVars, runVars, patchVars, gradVars>>

\* attack_image.py, line 46: np.load of a path that does not exist raises
\* FileNotFoundError, nothing catches it
ScriptLoadTargetRaises ==
    /\ script_pc = "quality"
    /\ target_path' = TargetPath
    /\ ~target_file_exists
    /\ script_error' = "FileNotFoundError"
    /\ script_pc' = "raised"
    /\ UNCHANGED <<qf, file_quality, self_qf, init_pc, args_qualityFactor, args_target,
                   target_file_exists, quality>>
    /\ UNCHANGED <<tileVars, iterVars, runVars, patchVars, gradVars>>

\* ------------------------------------------------------------ SpecPatches
\* ceil(a / b) for positive integers
Ceil(a, b) == (a + b - 1) \div b
\* range(0, n, step) as a sequence
PyRange(n, step) == [i \in 1 .. Ceil(n, step) |-> (i - 1) * step]

\* the grid positions in the order of the two loops, lines 74-76
Positions(shape, ps) ==
    LET xs == PyRange(shape[1], ps[1])
        ys == PyRange(shape[2], ps[2])
    IN  [k \in 1 .. Len(xs) * Len(ys) |->
            <<xs[((k - 1) \div Len(ys)) + 1], ys[((k - 1) % Len(ys)) + 1]>>]

\* mutant: only the top and left edges are tested
CrossesNearEdge(shape, x_index, y_index, x_index_f, y_index_f) ==
    x_index < 0 \/ y_index < 0

\* lines 86, 93, 100, 107: the padded window leaves the image
CrossesEdge(shape, x_index, y_index, x_index_f, y_index_f) ==
    \/ x_index < 0 \/ y_index < 0
    \/ x_index_f > shape[1] \/ y_index_f > shape[2]

\* mutant: the padding is reduced by the whole overshoot
ShrunkPaddingUnclamped(requested, overshoot) == requested - overshoot

\* lines 102 and 109: max(right_padding - (x_index_f - self.shape[0]), 0)
ShrunkPadding(requested, overshoot) == Max(requested - overshoot, 0)

\* lines 78-126, one pass of the loop body at grid position (xx, yy):
\* skipped (continue), a failed assertion, or the patch appended
PatchAt(shape, ps, pad, force, xx, yy) ==
    LET x_index == xx - pad[4]
        y_index == yy - pad[1]
        x_index_f == xx + ps[1] + pad[2]
        y_index_f == yy + ps[2] + pad[3]
        left_padding == IF x_index < 0 THEN pad[4] + x_index ELSE pad[4]
        top_padding == IF y_index < 0 THEN pad[1] + y_index ELSE pad[1]
        right_padding == IF x_index_f > shape[1]
                         THEN ShrunkPadding(pad[2], x_index_f - shape[1]) ELSE pad[2]
        bottom_padding == IF y_index_f > shape[2]
                          THEN ShrunkPadding(pad[3], y_index_f - shape[2]) ELSE pad[3]
        x0 == Max(x_index, 0)
        y0 == Max(y_index, 0)
        x1 == Min(x_index_f, shape[1])
        y1 == Min(y_index_f, shape[2])
        patch == [x_range |-> <<x0, x1>>, y_range |-> <<y0, y1>>,
                  paddings |-> <<top_padding, right_padding, bottom_padding,
                                 left_padding>>,
                  shape |-> <<Max(x1 - x0, 0), Max(y1 - y0, 0)>>]
        this_shape == <<ps[1] + pad[2] + pad[4], ps[2] + pad[1] + pad[3]>>
    IN  IF force /\ CrossesEdge(shape, x_index, y_index, x_index_f, y_index_f)
        THEN [kind |-> "continue", patch |-> patch]
        ELSE IF force /\ patch.shape # this_shape
             THEN [kind |-> "AssertionError", patch |-> patch]
             ELSE [kind |-> "append", patch |-> patch]

\* divide_in_patches: the list built by the first k grid positions, and
\* whether an assertion failed on the way
RECURSIVE PatchesUpTo(_, _, _, _, _)
PatchesUpTo(shape, ps, pad, force, k) ==
    IF k = 0 THEN [raised |-> FALSE, patches |-> <<>>]
    ELSE LET before == PatchesUpTo(shape, ps, pad, force, k - 1)
             pos == Positions(shape, ps)[k]
             at == PatchAt(shape, ps, pad, force, pos[1], pos[2])
         IN  IF before.raised \/ at.kind = "continue" THEN before
             ELSE IF at.kind = "AssertionError" THEN [before EXCEPT !.raised = TRUE]
             ELSE [before EXCEPT !.patches = Append(@, at.patch)]

divide_in_patches(shape, ps, pad, force) ==
    PatchesUpTo(shape, ps, pad, force, Len(Positions(shape, ps)))

\* the masks tried: nothing forged, the top-left pixel forged, the
\* bottom-right pixel forged, everything forged
Masks(shape) ==
    {{}, {<<0, 0>>}, {<<shape[1] - 1, shape[2] - 1>>}, Pixels(shape)}

InitPatches ==
    /\ pic_shape \in (1 .. MaxPicSide) \X (1 .. MaxPicSide)
    /\ patch_size \in (1 .. MaxPatchSide) \X (1 .. MaxPatchSide)
    /\ padding \in (0 .. MaxPadding) \X (0 .. MaxPadding) \X (0 .. MaxPadding)
                        \X (0 .. MaxPadding)
    /\ force_shape \in BOOLEAN
    /\ forged \in Masks(pic_shape)
    /\ patches = <<>>
    /\ dpc = "start"
    /\ target_out = <<>>
    /\ gpc = "start"

\* Picture.divide_in_patches, lines 57-128: it returns the list, or the
\* assertion of line 124 fails
DivideInPatches ==
    /\ dpc = "start"
    /\ LET result == divide_in_patches(pic_shape, patch_size, padding, force_shape)
       IN  /\ patches' = IF result.raised THEN <<>> ELSE result.patches
           /\ dpc' = IF result.raised THEN "AssertionError" ELSE "returned"
    /\ UNCHANGED <<pic_shape, patch_size, padding, force_shape, forged, target_out, gpc>>
    /\ UNCHANGED <<tileVars, iterVars, runVars, setupVars, gradVars>>

\* image.get_authentic_patches(mask, patch_size, padding_size, force_shape=True):
\* the patches of divide_in_patches that lie entirely where the mask is 0
IsAuthentic(patch, mask) ==
    \A q \in mask : ~(/\ patch.x_range[1] <= q[1] /\ q[1] < patch.x_range[2]
                      /\ patch.y_range[1] <= q[2] /\ q[2] < patch.y_range[2])
get_authentic_patches(shape, mask, ps, pad) ==
    LET all == divide_in_patches(shape, ps, pad, TRUE).patches
    IN  SelectSeq(all, LAMBDA patch : IsAuthentic(patch, mask))

\* lines 55-56
complete_patch_size(ps, pad) == <<ps[1] + pad[2] + pad[4], ps[2] + pad[1] + pad[3]>>

\* line 70: target_patch += noiseprint_patch / len(authentic_patches), where
\* noiseprint_patch is the squeezed output of the model; numpy adds in place
\* only when the broadcast of both shapes is the shape of target_patch
CanAddInPlace(into, from) ==
    \/ from = into
    \/ from = <<>>
    \/ Len(from) = 1 /\ (from[1] = into[2] \/ from[1] = 1)

\* patch.no_paddings(array): the array without its padding margin
no_paddings(ps, pad) == ps

\* mutant: the repeat factors are rounded down
RepeatFactorsFloor(shape, tp) == <<shape[1] \div tp[1], shape[2] \div tp[2]>>

\* line 79: (ceil(image.shape[0] / target_patch.shape[0]), ceil(... [1] / ... [1]))
RepeatFactors(shape, tp) == <<Ceil(shape[1], tp[1]), Ceil(shape[2], tp[2])>>

\* line 82: np.tile(target_patch, repeat_factors), each entry named by the
\* entry of target_patch it repeats
Tile(tp, reps) ==
    [p \in Pixels(<<tp[1] * reps[1], tp[2] * reps[2]>>) |-> <<p[1] % tp[1], p[2] % tp[2]>>]

\* line 85: array[:rows, :cols]
Crop(array, rows, cols) ==
    [p \in {q \in DOMAIN array : q[1] < rows /\ q[2] < cols} |-> array[p]]

\* LotsNoiseprint3._generate_target_representation: how it ends and what it returns
generate_target_representation(shape, mask, ps, pad) ==
    LET authentic_patches == get_authentic_patches(shape, mask, ps, pad)
        target_patch == no_paddings(ps, pad)
    IN  IF /\ authentic_patches # <<>>
           /\ ~CanAddInPlace(complete_patch_size(ps, pad),
                             SqueezedShape(complete_patch_size(ps, pad)))
        THEN [kind |-> "ValueError", value |-> <<>>]
        ELSE IF authentic_patches = <<>>
        THEN [kind |-> "IndexError", value |-> <<>>]
        ELSE [kind |-> "returned",
              value |-> Crop(Tile(target_patch, RepeatFactors(shape, target_patch)),
                             shape[1], shape[2])]

\* _generate_target_representation returns, lines 51-96
GenerateTargetRepresentation ==
    /\ gpc = "start"
    /\ LET result == generate_target_representation(pic_shape, forged, patch_size, padding)
       IN  /\ result.kind = "returned"
           /\ target_out' = result.value
    /\ gpc' = "returned"
    /\ UNCHANGED <<pic_shape, patch_size, padding, force_shape, forged, patches, dpc>>
    /\ UNCHANGED <<tileVars, iterVars, runVars, setupVars, gradVars>>

\* _generate_target_representation raises: line 70 (the squeezed noiseprint
\* of a one-column patch does not add in place) or line 76 (no authentic patch)
GenerateTargetRepresentationRaises ==
    /\ gpc = "start"
    /\ LET result == generate_target_representation(pic_shape, forged, patch_size, padding)
       IN  /\ result.kind # "returned"
           /\ gpc' = result.kind
    /\ UNCHANGED <<pic_shape, patch_size, padding, force_shape, forged, patches, dpc,
                   target_out>>
    /\ UNCHANGED <<tileVars, iterVars, runVars, setupVars, gradVars>>

\* ------------------------------------------------------------ SpecGradient
InitGradient ==
    /\ image_patch_shape \in (1 .. MaxGradSide) \X (1 .. MaxGradSide)
    /\ patch_target_shape \in (1 .. MaxGradSide) \X (1 .. MaxGradSide)
    /\ inferences = 0
    /\ patch_gradient = None
    /\ grad_pc = "start"

\* _get_gradient_of_patch, line 169: the assertion on the two shapes fails
GetGradientOfPatchMismatch ==
    /\ grad_pc = "start"
    /\ image_patch_shape # patch_target_shape
    /\ grad_pc' = "AssertionError at 169"
    /\ UNCHANGED <<image_patch_shape, patch_target_shape, inferences, patch_gradient>>
    /\ UNCHANGED <<tileVars, iterVars, runVars, setupVars, patchVars>>

\* _get_gradient_of_patch, lines 169-186: the model has run, the squeezed
\* gradient has lost an axis and the assertion on its shape fails
GetGradientOfPatchSqueezed ==
    /\ grad_pc = "start"
    /\ image_patch_shape = patch_target_shape
    /\ SqueezedShape(image_patch_shape) # image_patch_shape
    /\ inferences' = inferences + 1
    /\ grad_pc' = "AssertionError at 186"
    /\ UNCHANGED <<image_patch_shape, patch_target_shape, patch_gradient>>
    /\ UNCHANGED <<tileVars, iterVars, runVars, setupVars, patchVars>>

\* _get_gradient_of_patch, lines 169-188: both assertions hold
GetGradientOfPatch ==
    /\ grad_pc = "start"
    /\ image_patch_shape = patch_target_shape
    /\ SqueezedShape(image_patch_shape) = image_patch_shape
    /\ inferences' = inferences + 1
    /\ patch_gradient' = Some(SqueezedShape(image_patch_shape))
    /\ grad_pc' = "returned"
    /\ UNCHANGED <<image_patch_shape, patch_target_shape>>
    /\ UNCHANGED <<tileVars, iterVars, runVars, setupVars, patchVars>>

\* ------------------------------------------------------------ specifications
SetupIdle ==
    /\ qf = None /\ file_quality = [raises |-> "", value |-> 0] /\ self_qf = None
    /\ init_pc = "idle" /\ args_qualityFactor = None /\ args_target = None
    /\ target_file_exists = FALSE /\ quality = None /\ target_path = None
    /\ script_error = "" /\ script_pc = "idle"

PatchesIdle ==
    /\ pic_shape = <<1, 1>> /\ patch_size = <<1, 1>> /\ padding = <<0, 0, 0, 0>>
    /\ force_shape = FALSE /\ forged = {} /\ patches = <<>> /\ dpc = "idle"
    /\ target_out = <<>> /\ gpc = "idle"

GradientIdle ==
    /\ image_patch_shape = <<1, 1>> /\ patch_target_shape = <<1, 1>> /\ inferences = 0
    /\ patch_gradient = None /\ grad_pc = "idle"

LibIdle == SetupIdle /\ PatchesIdle /\ GradientIdle

TileIdle ==
    /\ image_shape = <<1, 1>> /\ slide = 1 /\ overlap = 0 /\ large_limit = 1
    /\ x = 0 /\ y = 0 /\ tpc = "idle"
    /\ image_gradient = <<>> /\ writes = <<>>
    /\ cumulative_loss = 0 /\ patch_calls = 0 /\ last_call = NoCall

IterIdle ==
    /\ iter_steps = 1 /\ additive_attack = TRUE /\ target_image = ZeroImage
    /\ step_counter = 0 /\ attacked_image = ZeroImage /\ ipc = "idle" /\ iter_k = 0
    /\ gradient_sum = ZeroImage /\ gradient_last = ZeroImage

RunIdle ==
    /\ objective_shape = <<1, 1>> /\ target_representation = NoTarget
    /\ objective_image = Zeros(<<0, 0>>)
    /\ steps = 0 /\ plot_interval = 1
    /\ attack_iteration = 0 /\ adversarial_noise_array = Zeros(<<0, 0>>)
    /\ best_noise = OwnArray(Zeros(<<0, 0>>))
    /\ loss_steps = <<>> /\ psnr_steps = <<>> /\ noiseprint_variance_steps = <<>>
    /\ min_loss = Inf /\ files = NoFile /\ logs = <<>> /\ pc = "none"
    /\ caller = "none" /\ loop_i = 0 /\ hooks = <<>> /\ executions = 0
    /\ steps_begun = 0 /\ calls = 0
    /\ loss_input = Zeros(<<0, 0>>) /\ min_loss_input = Zeros(<<0, 0>>)

Init == InitRun /\ TileIdle /\ IterIdle /\ LibIdle
Next ==
    \/ Execute \/ OnBeforeAttack \/ LoopNext \/ LoopEnd \/ AttackOneStep
    \/ OnBeforeAttackStepRaises \/ OnBeforeAttackStep \/ AttackStep \/ AttackStepRaises
    \/ OnAfterAttackStep \/ OnAfterAttackStepRaises \/ OnAfterAttack
Spec == Init /\ [][Next]_vars

TileInit == InitTile /\ IterIdle /\ RunIdle /\ LibIdle
NextTile ==
    \/ SinglePass \/ SinglePassRaises \/ EnterTiling
    \/ TileStep \/ TileStepPatchRaises \/ TileStepCopyRaises
SpecTile == TileInit /\ [][NextTile]_vars

IterInit == InitIter /\ TileIdle /\ RunIdle /\ LibIdle
NextIter ==
    \/ IterOnBeforeAttack \/ IterBeforeStep \/ IterAttack
    \/ IterAfterStep \/ IterOnAfterAttack
SpecIter == IterInit /\ [][NextIter]_vars

SetupInit == InitSetup /\ TileIdle /\ IterIdle /\ RunIdle /\ PatchesIdle /\ GradientIdle
NextSetup ==
    \/ LotsInitQuality \/ ScriptQuality \/ ScriptQualityRaises
    \/ ScriptLoadTarget \/ ScriptLoadTargetRaises
SpecSetup == SetupInit /\ [][NextSetup]_vars

PatchesInit == InitPatches /\ TileIdle /\ IterIdle /\ RunIdle /\ SetupIdle /\ GradientIdle
NextPatches ==
    \/ DivideInPatches \/ GenerateTargetRepresentation
    \/ GenerateTargetRepresentationRaises
SpecPatches == PatchesInit /\ [][NextPatches]_vars

GradientInit == InitGradient /\ TileIdle /\ IterIdle /\ RunIdle /\ SetupIdle /\ PatchesIdle
NextGradient ==
    \/ GetGradientOfPatchMismatch \/ GetGradientOfPatchSqueezed \/ GetGradientOfPatch
SpecGradient == GradientInit /\ [][NextGradient]_vars

\* ------------------------------------------------------------ claims
AllPixels == DOMAIN writes
TilingPath == image_shape[1] * image_shape[2] >= large_limit
Identity == [p \in Pixels(image_shape) |-> p]

\* C1: in the tiling path no pixel of the output buffer is ever written twice,
\* and when the call returns every pixel has been written exactly once: the
\* rectangles written are pairwise disjoint and cover the image, for every
\* image size, stride and overlap. (A call that raises returns no buffer.)
C1_TilingWritesEachPixelOnce ==
    /\ \A p \in AllPixels : writes[p] <= 1
    /\ (tpc = "returned" /\ TilingPath) => \A p \in AllPixels : writes[p] = 1

\* a tiled call over four windows with overlap has returned
C1_Witness ==
    /\ tpc = "returned" /\ TilingPath
    /\ patch_calls = 4 /\ overlap = 1 /\ slide = 2

\* C2: below the limit the call makes exactly one _get_gradient_of_patch call,
\* on the whole image and the whole target, returns its gradient and loss
\* unchanged and never enters the tiling loop; at the limit the tiling path
\* is taken.
C2_SinglePassBelowLimit ==
    /\ (tpc # "start" /\ ~TilingPath) =>
          /\ tpc \in {"returned", "raised"}
          /\ patch_calls = 1
          /\ last_call.window = WholeImage /\ last_call.target = WholeImage
          /\ \A p \in AllPixels : writes[p] = 0
          /\ tpc = "returned" =>
                (image_gradient = Identity /\ cumulative_loss = last_call.loss)
    /\ (tpc = "returned" /\ image_shape[1] * image_shape[2] = large_limit) =>
          \A p \in AllPixels : writes[p] = 1

\* an image one pixel below the limit has been processed in a single pass
C2_Witness ==
    /\ tpc = "returned"
    /\ image_shape[1] * image_shape[2] = large_limit - 1
    /\ patch_calls = 1 /\ cumulative_loss = MaxLoss

Last(seq) == seq[Len(seq)]
\* a step has completed: the controller is between steps or between calls
BetweenSteps == pc \in {"idle", "loop", "before_step", "attack_step", "after_attack"}
\* execute() has just returned
JustTerminated ==
    pc = "idle" /\ logs # <<>> /\ Last(logs).msg = "Attack pipeline terminated"
IsPrefix(a, b) == Len(a) <= Len(b) /\ SubSeq(b, 1, Len(a)) = a

\* C4: min_loss never increases; it changes only in a post-step hook whose
\* step loss is strictly lower, and then becomes that loss; after every
\* completed step it is a recorded loss that no recorded loss is lower than.
C4_MinLossIsRunningMinimum ==
    /\ [](BetweenSteps =>
            IF loss_steps = <<>> THEN min_loss = Inf
            ELSE /\ \E i \in 1 .. Len(loss_steps) : loss_steps[i] = min_loss
                 /\ \A i \in 1 .. Len(loss_steps) : ~FLess(loss_steps[i], min_loss)
                 /\ min_loss = PyMin(loss_steps))
    /\ [][/\ min_loss' <= min_loss
          /\ min_loss' # min_loss =>
                /\ pc = "after_step"
                /\ Last(loss_steps) < min_loss
                /\ min_loss' = Last(loss_steps)]_vars

\* three steps have completed, the second one had the lowest loss
C4_Witness ==
    /\ pc = "idle" /\ Len(loss_steps) = 3
    /\ loss_steps[1] = 2 /\ loss_steps[2] = 1 /\ loss_steps[3] = 2
    /\ min_loss = 1

\* C5: the accumulation of an attack step (adversarial_noise_array += ...)
\* never changes the value of best_noise.
C5_AccumulationLeavesBestNoise ==
    [][pc = "attack_step" => BestNoiseValue' = BestNoiseValue]_vars

\* C6: when execute() has returned after at least one step, best-noise.npy
\* holds the accumulator value the minimum recorded loss was measured on.
C6_BestNoiseAchievedMinLoss ==
    (JustTerminated /\ loss_steps # <<>>) =>
        (files.exists /\ files.data = min_loss_input)

\* the hooks one execute() call with n steps fires, in order
RECURSIVE StepHooks(_)
StepHooks(n) ==
    IF n = 0 THEN <<>>
    ELSE StepHooks(n - 1) \o << <<"before_step", n - 1>>, <<"attack_step", n - 1>>,
                                <<"after_step", n - 1>> >>
ExpectedHooks(n) == << <<"before_attack", -1>> >> \o StepHooks(n) \o << <<"after_attack", -1>> >>

\* C7: the hooks of one execute() call fire in the order pre-attack, then
\* for each step 0..N-1 pre-step, attack step, post-step, then post-attack;
\* a call that has returned has fired exactly that sequence.
C7_HookOrder ==
    /\ IsPrefix(hooks, ExpectedHooks(steps))
    /\ JustTerminated => hooks = ExpectedHooks(steps)

\* an execute() call with two steps has returned
C7_Witness == JustTerminated /\ steps = 2 /\ Len(hooks) = 8 /\ executions = 1

\* C8 as stated: once execute() has returned, the controller stays where
\* it is and its accumulator, best noise and loss series never change.
C8_TerminatedIsAbsorbing ==
    [][executions >= 1 =>
          /\ pc' = "idle"
          /\ UNCHANGED <<adversarial_noise_array, best_noise, loss_steps>>]_vars

\* C8 amended: a controller whose execute() has returned is left only by a
\* further public call, whose entry changes neither the accumulator, the
\* best noise, the minimum loss nor the loss series; the steps of that call
\* carry on from them: each appends its loss to the same series and is
\* measured on the accumulator as the earlier calls left it.
C8_TerminatedLeftOnlyByFurtherCall ==
    [][/\ (executions >= 1 /\ pc = "idle") =>
            /\ calls' = calls + 1
            /\ pc' \in {"before_attack", "before_step"}
            /\ UNCHANGED <<adversarial_noise_array, best_noise, loss_steps, min_loss>>
       /\ (executions >= 1 /\ pc = "attack_step" /\ pc' = "after_step") =>
            /\ IsPrefix(loss_steps, loss_steps')
            /\ Len(loss_steps') = Len(loss_steps) + 1
            /\ loss_input' = adversarial_noise_array]_vars

\* a further attack_one_step() call has run a step on a terminated controller
C8_Witness ==
    /\ executions >= 1 /\ caller = "attack_one_step" /\ pc = "after_step"
    /\ Len(loss_steps) = steps + 1
    /\ adversarial_noise_array # loss_input

\* C9: a step whose gradient computation raises adds nothing to the
\* accumulator and appends nothing to the loss series, and nothing runs
\* after it: no retry, no later step. Only a step whose gradient computation
\* returned goes on to its post-step hook, with the returned loss recorded.
C9_FailedStepAbortsRun ==
    [][/\ pc # "raised"
       /\ (pc = "attack_step" /\ pc' = "raised") =>
             UNCHANGED <<adversarial_noise_array, loss_steps, loop_i>>
       /\ (pc = "attack_step" /\ pc' # "raised") =>
             /\ pc' = "after_step"
             /\ \E out \in EngineOutputs(adversarial_noise_array) :
                   loss_steps' = Append(loss_steps, out.loss)]_vars

\* the second step of a two-step run has failed
C9_Witness ==
    /\ pc = "raised" /\ caller = "execute" /\ steps = 2
    /\ Len(loss_steps) = 1 /\ Last(hooks) = <<"attack_step", 1>>
    /\ adversarial_noise_array # Zeros(objective_shape)

\* the gradient computation of a step of execute() has raised
StepFailed ==
    /\ pc = "raised" /\ caller = "execute"
    /\ hooks # <<>> /\ Last(hooks)[1] = "attack_step"

\* C10: when a run has aborted because a step failed, best-noise.npy exists
\* and the log ends with a line about the abort; when step 0 failed the
\* file is all-zero.
C10_AbortLeavesBestNoiseOnDisk ==
    StepFailed =>
        /\ files.exists
        /\ Last(logs).msg \notin {"Attack started", "step", "New optimal noise found"}
        /\ Last(hooks)[2] = 0 => files.data = Zeros(objective_shape)

\* the gradient an attack step got from the engine is all-zero once its
\* border is zeroed
ZeroAfterBorder(gradient) == MaxAbs(ZeroBorder(gradient, StepMargin)) = 0

\* C11: the noise accumulator never holds a nan (or infinite) entry: a step
\* whose gradient is all-zero after border zeroing adds nothing.
C11_ZeroNormIsGuarded ==
    ~HasNaN(adversarial_noise_array)

\* C15: a step that begins without a target representation has it built by
\* the pre-step hook, which then hands over to the gradient computation; the
\* gradient computation always gets a target of the image's shape.
C15_TargetBuiltBeforeGradient ==
    [][/\ (pc = "before_step" /\ target_representation.none) =>
             (pc' = "attack_step" /\ target_representation' = TargetOf(objective_shape))
       /\ pc' = "attack_step" => target_representation' = TargetOf(objective_shape)]_vars

\* ---- quality factor and target file
InRange(v) == MinQuality <= v /\ v <= MaxQuality
\* the supplied quality factor is missing or outside [51, 101]
Unusable(q) == q = None \/ ~InRange(Value(q))

\* C12 as stated: the quality given to load_quality is always in [51, 101],
\* and it is the default 101 whenever the supplied quality factor is missing,
\* unreadable or out of range; the same for the quality the script selects.
C12_UnusableQualityFallsBackToDefault ==
    /\ init_pc = "loaded" =>
          /\ InRange(Value(self_qf))
          /\ Unusable(qf) => Value(self_qf) = DefaultQuality
    /\ script_pc = "quality" =>
          /\ InRange(Value(quality))
          /\ Unusable(args_qualityFactor) => Value(quality) = DefaultQuality

\* C12 amended: a supplied quality factor in [51, 101] is used as it is; a
\* missing or out-of-range one is replaced by the quality estimated from the
\* image file, whatever that estimate is, and by the default 101 only when
\* the estimation raises (in the script: raises AttributeError).
C12_UnusableQualityIsEstimatedFromFile ==
    /\ init_pc = "loaded" =>
          /\ ~Unusable(qf) => self_qf = qf
          /\ (Unusable(qf) /\ file_quality.raises = "") =>
                Value(self_qf) = file_quality.value
          /\ (Unusable(qf) /\ file_quality.raises # "") =>
                Value(self_qf) = DefaultQuality
    /\ script_pc = "quality" =>
          /\ args_qualityFactor # None => quality = args_qualityFactor
          /\ (args_qualityFactor = None /\ file_quality.raises = "") =>
                Value(quality) = file_quality.value
          /\ (args_qualityFactor = None /\ file_quality.raises # "") =>
                (Value(quality) = DefaultQuality /\ file_quality.raises = "AttributeError")

\* an out-of-range quality factor was replaced by an estimate that is itself
\* below the range
C12_Witness ==
    /\ init_pc = "loaded" /\ qf = Some(MaxQuality + 1)
    /\ file_quality.raises = "" /\ Value(self_qf) = MinQuality - 1
    /\ script_pc = "quality" /\ args_qualityFactor = None

\* C17: a target file that is absent ends the script with the missing-target
\* condition, not with a generic I/O error.
C17_MissingTargetIsDistinct ==
    (script_pc = "raised" /\ target_path # None /\ ~target_file_exists) =>
        script_error = "MissingTargetRepresentation"

\* ---- patches and the target representation
\* the grid positions of divide_in_patches
Grid == {pos \in Pixels(pic_shape) : pos[1] % patch_size[1] = 0 /\ pos[2] % patch_size[2] = 0}
\* the padded window of a grid position lies inside the image
WindowInside(pos) ==
    /\ pos[1] - padding[4] >= 0 /\ pos[1] + patch_size[1] + padding[2] <= pic_shape[1]
    /\ pos[2] - padding[1] >= 0 /\ pos[2] + patch_size[2] + padding[3] <= pic_shape[2]
\* the grid position a patch was cut at
GridPosition(patch) == <<patch.x_range[1] + padding[4], patch.y_range[1] + padding[1]>>

\* C13: with force_shape, divide_in_patches raises nothing and returns one
\* patch for each grid position whose padded window lies inside the image
\* and none for the others; each patch has the shape patch_shape plus
\* padding, the full paddings, and the untruncated window as its bounds.
C13_ForceShapeDropsEdgePatches ==
    (dpc # "start" /\ force_shape) =>
        /\ dpc = "returned"
        /\ \A i \in 1 .. Len(patches) :
              /\ patches[i].shape = <<patch_size[1] + padding[2] + padding[4],
                                      patch_size[2] + padding[1] + padding[3]>>
              /\ patches[i].paddings = padding
              /\ GridPosition(patches[i]) \in Grid
              /\ WindowInside(GridPosition(patches[i]))
              /\ patches[i].x_range[2] - patches[i].x_range[1] = patches[i].shape[1]
              /\ patches[i].y_range[2] - patches[i].y_range[1] = patches[i].shape[2]
              /\ \A j \in 1 .. Len(patches) :
                    GridPosition(patches[j]) = GridPosition(patches[i]) => j = i
        /\ \A pos \in Grid :
              WindowInside(pos) => \E i \in 1 .. Len(patches) : GridPosition(patches[i]) = pos

\* some padded windows cross the bottom or right edge and are dropped, one
\* does not and is kept
C13_Witness ==
    /\ dpc = "returned" /\ force_shape /\ Len(patches) = 1
    /\ padding = <<0, 1, 1, 0>> /\ Cardinality(Grid) > 1

\* C14: the target representation returned has the image's shape, and its
\* entry at (r, c) is the entry (r mod ph, c mod pw) of the padding-stripped
\* averaged patch; the call ends with IndexError exactly when there is no
\* authentic patch.
C14_TargetHasImageShape ==
    /\ gpc = "returned" =>
          /\ DOMAIN target_out = Pixels(pic_shape)
          /\ \A p \in Pixels(pic_shape) :
                target_out[p] = <<p[1] % patch_size[1], p[2] % patch_size[2]>>
    /\ gpc = "IndexError" <=>
          (gpc # "start" /\ get_authentic_patches(pic_shape, forged, patch_size, padding) = <<>>)

\* the patch does not divide the image: the last repetition is cropped
C14_Witness ==
    /\ gpc = "returned" /\ pic_shape = <<3, 3>> /\ patch_size = <<2, 2>>
    /\ padding = <<0, 0, 0, 0>> /\ forged = {<<2, 2>>}

\* C16: a call whose patch and target differ in shape fails before the model
\* runs and returns nothing; a call with equal shapes returns a gradient of
\* the patch's shape.
C16_PatchGradientContract ==
    grad_pc # "start" =>
        IF image_patch_shape # patch_target_shape
        THEN /\ grad_pc = "AssertionError at 169"
             /\ inferences = 0 /\ patch_gradient = None
        ELSE /\ grad_pc = "returned"
             /\ patch_gradient = Some(image_patch_shape)

\* C18: in the tiling path the cumulative loss starts at zero and every call
\* of _get_gradient_of_patch that returns adds its loss to it once, unweighted
\* and whatever part of the window's gradient is kept; nothing else changes
\* it, so the loss returned is the plain sum of the windows' losses.
C18_CumulativeLossIsPlainSum ==
    /\ cumulative_loss = 0
    /\ [][TilingPath =>
            IF patch_calls' = patch_calls + 1
            THEN cumulative_loss' = cumulative_loss + last_call'.loss
            ELSE cumulative_loss' = cumulative_loss]_vars

\* four windows of a 3 x 3 image, each with the largest loss, the last one
\* keeping a single pixel of its 2 x 2 gradient
C18_Witness ==
    /\ tpc = "returned" /\ TilingPath
    /\ patch_calls = 4 /\ cumulative_loss = 4 * MaxLoss
    /\ Shape(last_call.window) = <<2, 2>> /\ Shape(last_call.kept) = <<1, 1>>

\* C19: in the tiling path with stride >= overlap, the block copied by every
\* window has the shape of the rows [x, x+S) and columns [y, y+S) it is
\* copied to, clipped to the image, and every pixel written holds the
\* patch-gradient entry computed for that very image pixel: dropping the
\* leading overlap aligns a later window's gradient with its position.
C19_KeptBlockIsAligned ==
    (TilingPath /\ slide >= overlap) =>
        /\ Shape(last_call.kept) = Shape(last_call.dest)
        /\ last_call.kept = last_call.dest
        /\ \A p \in AllPixels : writes[p] >= 1 => image_gradient[p] = p

\* stride = overlap = 1: the last of the nine windows of a 3 x 3 image
\* starts one row and one column before the pixel it writes
C19_Witness ==
    /\ tpc = "returned" /\ TilingPath
    /\ slide = 1 /\ overlap = 1 /\ patch_calls = 9
    /\ last_call.window.t < last_call.dest.t /\ last_call.window.l < last_call.dest.l
    /\ image_gradient = Identity

\* alpha * normalize_gradient(gradient, 8) has maximum absolute value alpha
\* for every gradient the engine can return that is non-zero inside the border
StepHasSizeAlpha ==
    \A out \in EngineOutputs(adversarial_noise_array) :
        (~HasNaN(out.gradient) /\ ~ZeroAfterBorder(out.gradient)) =>
            alpha * MaxAbs(normalize_gradient(out.gradient, StepMargin)) = alpha * Scale

\* C20: every step adds a perturbation of maximum absolute value alpha, so
\* after k steps every entry of the noise accumulator is a number of absolute
\* value at most k * alpha.
C20_NoiseWithinStepsTimesAlpha ==
    /\ StepHasSizeAlpha
    /\ \A p \in DOMAIN adversarial_noise_array.at :
          /\ adversarial_noise_array.at[p] # NaN
          /\ Abs(adversarial_noise_array.at[p]) <= Len(loss_steps) * alpha * Scale

\* C21: border zeroing with the step's margin zeroes the outermost rows and
\* columns of every gradient, with margin 0 it zeroes nothing, and so the
\* entries of the noise accumulator inside the border margin are zero after
\* any number of steps.
C21_BorderOfNoiseIsZero ==
    LET InBorder(p) == \/ p[1] < StepMargin
                       \/ p[1] >= objective_shape[1] - StepMargin
                       \/ p[2] < StepMargin
                       \/ p[2] >= objective_shape[2] - StepMargin
    IN  /\ \A out \in EngineOutputs(adversarial_noise_array) :
              /\ ZeroBorder(out.gradient, 0) = out.gradient
              /\ \A p \in DOMAIN out.gradient.at :
                    ZeroBorder(out.gradient, StepMargin).at[p] =
                        (IF InBorder(p) THEN 0 ELSE out.gradient.at[p])
        /\ \A p \in DOMAIN adversarial_noise_array.at :
              InBorder(p) => adversarial_noise_array.at[p] = 0

\* C22: the post-step hook of a step produces a per-step visualization
\* exactly when the step's 1-based index is a multiple of a positive
\* plot_interval; with plot_interval zero or negative it produces none and
\* does not fail.
C22_PlotsOnPositiveIntervalOnly ==
    [][LET Plots(series) ==
             Cardinality({i \in DOMAIN series : series[i].by = "plot_step"})
       IN  pc = "after_step" =>
              /\ pc' # "raised"
              /\ Plots(noiseprint_variance_steps') - Plots(noiseprint_variance_steps) =
                    (IF plot_interval > 0 /\ (attack_iteration + 1) % plot_interval = 0
                     THEN 1 ELSE 0)]_vars

\* C23: once built, the target representation is never modified: no step of a
\* run changes an entry of the target representation or of the pristine
\* objective image, whose border entries in particular keep their values.
C23_TargetAndObjectiveUnchanged ==
    [][/\ ~target_representation.none => target_representation' = target_representation
       /\ objective_image' = objective_image]_vars

\* two steps have been made on a target whose border entries are not zero
C23_Witness ==
    /\ ~target_representation.none /\ Len(loss_steps) = 2
    /\ target_representation.at[<<0, 0>>] # 0
    /\ ~HasNaN(adversarial_noise_array)
    /\ adversarial_noise_array # Zeros(objective_shape)

\* C24: without force_shape divide_in_patches returns one patch per grid
\* position; every patch has bounds 0 <= x0 < x1 <= H and 0 <= y0 < y1 <= W
\* and records paddings between 0 and the paddings asked for; with zero
\* padding the patches partition the image, every pixel lying in exactly one.
C24_ElasticPatchesCoverImage ==
    (dpc # "start" /\ ~force_shape) =>
        /\ dpc = "returned"
        /\ Len(patches) = Len(Positions(pic_shape, patch_size))
        /\ \A k \in DOMAIN patches :
              /\ 0 <= patches[k].x_range[1] /\ patches[k].x_range[1] < patches[k].x_range[2]
              /\ patches[k].x_range[2] <= pic_shape[1]
              /\ 0 <= patches[k].y_range[1] /\ patches[k].y_range[1] < patches[k].y_range[2]
              /\ patches[k].y_range[2] <= pic_shape[2]
              /\ \A i \in 1 .. 4 : /\ 0 <= patches[k].paddings[i]
                                   /\ patches[k].paddings[i] <= padding[i]
        /\ padding = <<0, 0, 0, 0>> =>
              \A p \in Pixels(pic_shape) :
                  Cardinality({k \in DOMAIN patches :
                                  /\ patches[k].x_range[1] <= p[1] /\ p[1] < patches[k].x_range[2]
                                  /\ patches[k].y_range[1] <= p[2] /\ p[2] < patches[k].y_range[2]})
                      = 1

\* a 3 x 3 image cut into four 2 x 2 patches padded by 1 on every side: the
\* last patch overshoots the image by more than its padding
C24_Witness ==
    /\ dpc = "returned" /\ ~force_shape
    /\ pic_shape = <<3, 3>> /\ patch_size = <<2, 2>> /\ padding = <<1, 1, 1, 1>>
    /\ Len(patches) = 4
    /\ patches[4].paddings = <<1, 0, 0, 1>>
    /\ patches[4].x_range = <<1, 3>>

\* C25: between steps, after k completed steps, the loss, PSNR and variance
\* series each hold exactly k entries, whatever the plot interval, and every
\* entry was recorded by a step.
C25_SeriesHaveOneEntryPerStep ==
    LET completed == IF pc \in {"before_step", "attack_step"}
                     THEN steps_begun - 1 ELSE steps_begun
    IN  BetweenSteps =>
        /\ Len(loss_steps) = completed
        /\ Len(psnr_steps) = completed
        /\ Len(noiseprint_variance_steps) = completed
        /\ \A i \in DOMAIN noiseprint_variance_steps :
              noiseprint_variance_steps[i].by = "hook"

====
